---- MODULE Spec2Model ----
(***************************************************************************)
(* A model of the CIBIL analysis service of src/main.py: the date parser,  *)
(* the keyword categoriser, the scoring engine calculate_cibil_score and   *)
(* the /analyze-cibil/{session_id} endpoint.                               *)
(*                                                                         *)
(* Text is modelled as TLA+ strings handled character by character.        *)
(* A datetime is modelled by its proleptic Gregorian ordinal (the value    *)
(* of datetime.toordinal()): none of the accepted formats carries a time   *)
(* of day.  Python floats are modelled by exact rationals <<num, den>>,     *)
(* and the amounts, which may be of any magnitude, by floats with their    *)
(* overflow to inf.                                                        *)
(***************************************************************************)
EXTENDS Integers, Sequences, FiniteSets, TLC

VARIABLES pc, transactions, dated_transactions, result, upstream, response, engine_calls

vars == <<pc, transactions, dated_transactions, result, upstream, response, engine_calls>>

-----------------------------------------------------------------------------
(* Exact rational arithmetic standing for Python's float arithmetic.       *)

Abs(x) == IF x < 0 THEN -x ELSE x

RECURSIVE Gcd(_, _)
Gcd(a, b) == IF b = 0 THEN a ELSE Gcd(b, a % b)

Rat(n, d) ==
    LET g == Gcd(Abs(n), Abs(d))
        s == IF d < 0 THEN -1 ELSE 1
    IN  <<(s * n) \div g, (s * d) \div g>>

RInt(n) == <<n, 1>>

RAdd(x, y) == Rat(x[1] * y[2] + y[1] * x[2], x[2] * y[2])

RSub(x, y) == Rat(x[1] * y[2] - y[1] * x[2], x[2] * y[2])

RMul(x, y) == Rat(x[1] * y[1], x[2] * y[2])

\* x / y for y # 0 (Python raises ZeroDivisionError when y = 0; the callers test it)
RDiv(x, y) == Rat(x[1] * y[2], x[2] * y[1])

RLe(x, y) == x[1] * y[2] <= y[1] * x[2]

RLt(x, y) == x[1] * y[2] < y[1] * x[2]

RGe(x, y) == RLe(y, x)

RMax(x, y) == IF RLt(x, y) THEN y ELSE x

RMin(x, y) == IF RLt(y, x) THEN y ELSE x

\* floor of a rational (\div rounds towards minus infinity)
RFloor(x) == x[1] \div x[2]

\* int(x): truncation towards zero
RTrunc(x) == IF x[1] >= 0 THEN x[1] \div x[2] ELSE -((-x[1]) \div x[2])

Pow10(k) == IF k = 0 THEN 1 ELSE IF k = 1 THEN 10 ELSE 100

\* round(x, k) for x >= 0: nearest multiple of 10^-k, ties to even
Round(x, k) ==
    LET p == Pow10(k)
        n == x[1] * p
        q == n \div x[2]
        twice == 2 * (n % x[2])
        up == twice > x[2] \/ (twice = x[2] /\ q % 2 = 1)
    IN  Rat(IF up THEN q + 1 ELSE q, p)

-----------------------------------------------------------------------------
(* The range of a float.  An amount is a JSON number <<mantissa, exponent>> *)
(* read as mantissa * 10^exponent; a float is finite (m * 10^e with m an   *)
(* exact rational), inf or nan.  A float operation whose result is beyond  *)
(* the largest double gives inf, without an exception.                     *)

Finite(m, e) == [kind |-> "finite", m |-> m, e |-> e]

Infinity == [kind |-> "inf", m |-> RInt(0), e |-> 0]

NotANumber == [kind |-> "nan", m |-> RInt(0), e |-> 0]

\* whether m * 10^e lies beyond sys.float_info.max = 1.7976931348623157e308
\* (compared to six digits; exponents between 10 and 305 do not occur)
Overflows(m, e) ==
    e >= 306 /\ RLt(Rat(179769, 1000), RMul(<<Abs(m[1]), m[2]>>, RInt(Pow10(e - 306))))

\* the float nearest to m * 10^e
Float(m, e) ==
    IF m[1] = 0 THEN Finite(RInt(0), 0)
    ELSE IF Overflows(m, e) THEN Infinity
    ELSE Finite(m, e)

\* abs(x) of a number
FAbs(amount) == Float(RInt(Abs(amount[1])), amount[2])

\* x + y for x, y >= 0; a finite term of a smaller exponent is absorbed
FAdd(x, y) ==
    IF x.kind = "nan" \/ y.kind = "nan" THEN NotANumber
    ELSE IF x.kind = "inf" \/ y.kind = "inf" THEN Infinity
    ELSE IF x.m[1] = 0 THEN y
    ELSE IF y.m[1] = 0 THEN x
    ELSE IF x.e = y.e THEN Float(RAdd(x.m, y.m), x.e)
    ELSE IF x.e > y.e THEN x ELSE y

\* x * r and x / r for a finite rational r > 0
FScale(x, r) == IF x.kind = "finite" THEN Float(RMul(x.m, r), x.e) ELSE x

\* x / y for y # 0, of two floats that are of the same exponent when finite
FDiv(x, y) ==
    CASE x.kind = "nan" \/ y.kind = "nan" -> NotANumber
      [] x.kind = "inf" /\ y.kind = "inf" -> NotANumber
      [] x.kind = "inf" /\ y.kind = "finite" -> Infinity
      [] x.kind = "finite" /\ y.kind = "inf" -> Finite(RInt(0), 0)
      [] x.kind = "finite" /\ y.kind = "finite" /\ (x.e = y.e \/ x.m[1] = 0) ->
            Float(RDiv(x.m, y.m), 0)

\* min(1.0, x): x when x < 1.0, and 1.0 otherwise (nan < 1.0 is False)
FMinOne(x) == IF x.kind = "finite" /\ RLt(x.m, RInt(1)) THEN x.m ELSE RInt(1)

-----------------------------------------------------------------------------
(* Character-level helpers on strings.                                     *)

CharAt(s, i) == SubSeq(s, i, i)

\* a sequence given by a rule, as an enumerated tuple
Tuple(f) == f \o <<>>

DigitChars == <<"0", "1", "2", "3", "4", "5", "6", "7", "8", "9">>

IsDigit(c) == \E i \in 1..10 : DigitChars[i] = c

DigitVal(c) == (CHOOSE i \in 1..10 : DigitChars[i] = c) - 1

Whitespace == {" ", "\t"}

\* str.strip()
RECURSIVE LStrip(_)
LStrip(s) ==
    IF Len(s) > 0 /\ CharAt(s, 1) \in Whitespace
    THEN LStrip(SubSeq(s, 2, Len(s)))
    ELSE s

RECURSIVE RStrip(_)
RStrip(s) ==
    IF Len(s) > 0 /\ CharAt(s, Len(s)) \in Whitespace
    THEN RStrip(SubSeq(s, 1, Len(s) - 1))
    ELSE s

Strip(s) == RStrip(LStrip(s))

\* the fields of s between occurrences of the one-character separator sep
RECURSIVE SplitFrom(_, _, _, _)
SplitFrom(s, sep, start, i) ==
    IF i > Len(s) THEN <<SubSeq(s, start, Len(s))>>
    ELSE IF CharAt(s, i) = sep
         THEN <<SubSeq(s, start, i - 1)>> \o SplitFrom(s, sep, i + 1, i + 1)
         ELSE SplitFrom(s, sep, start, i + 1)

Split(s, sep) == SplitFrom(s, sep, 1, 1)

\* k in s
Contains(s, k) ==
    \E i \in 0..(Len(s) - Len(k)) : SubSeq(s, i + 1, i + Len(k)) = k

LowerChars == <<"a", "b", "c", "d", "e", "f", "g", "h", "i", "j", "k", "l", "m",
                "n", "o", "p", "q", "r", "s", "t", "u", "v", "w", "x", "y", "z">>

UpperChars == <<"A", "B", "C", "D", "E", "F", "G", "H", "I", "J", "K", "L", "M",
                "N", "O", "P", "Q", "R", "S", "T", "U", "V", "W", "X", "Y", "Z">>

UpperChar(c) ==
    IF \E i \in 1..26 : LowerChars[i] = c
    THEN UpperChars[CHOOSE i \in 1..26 : LowerChars[i] = c]
    ELSE c

\* str.upper()
RECURSIVE Upper(_)
Upper(s) ==
    IF Len(s) = 0 THEN s
    ELSE UpperChar(CharAt(s, 1)) \o Upper(SubSeq(s, 2, Len(s)))

-----------------------------------------------------------------------------
(* Calendar: datetime construction, toordinal, fromordinal, strftime.      *)

IsLeap(y) == y % 4 = 0 /\ (y % 100 # 0 \/ y % 400 = 0)

DaysInMonth(y, m) ==
    IF m = 2 THEN (IF IsLeap(y) THEN 29 ELSE 28)
    ELSE IF m \in {4, 6, 9, 11} THEN 30 ELSE 31

DaysBeforeYear(y) ==
    (y - 1) * 365 + (y - 1) \div 4 - (y - 1) \div 100 + (y - 1) \div 400

RECURSIVE DaysBeforeMonth(_, _)
DaysBeforeMonth(y, m) ==
    IF m = 1 THEN 0 ELSE DaysBeforeMonth(y, m - 1) + DaysInMonth(y, m - 1)

\* datetime(y, m, d) raises ValueError outside these ranges
ValidDate(y, m, d) ==
    /\ y \in 1..9999
    /\ m \in 1..12
    /\ d \in 1..DaysInMonth(y, m)

Ordinal(y, m, d) == DaysBeforeYear(y) + DaysBeforeMonth(y, m) + d

YearOfOrdinal(o) ==
    LET guess == (o - 1) \div 366 + 1
    IN  CHOOSE y \in guess..(guess + 28) :
            DaysBeforeYear(y) < o /\ o <= DaysBeforeYear(y + 1)

FromOrdinal(o) ==
    LET y == YearOfOrdinal(o)
        r == o - DaysBeforeYear(y)
        m == CHOOSE k \in 1..12 :
                 DaysBeforeMonth(y, k) < r /\ r <= DaysBeforeMonth(y, k) + DaysInMonth(y, k)
    IN  [year |-> y, month |-> m, day |-> r - DaysBeforeMonth(y, m)]

RECURSIVE Decimal(_)
Decimal(n) ==
    IF n < 10 THEN DigitChars[n + 1]
    ELSE Decimal(n \div 10) \o DigitChars[(n % 10) + 1]

TwoDigits(n) == IF n < 10 THEN "0" \o Decimal(n) ELSE Decimal(n)

\* datetime.strftime("%Y-%m-%d") (glibc does not pad the year)
FormatDate(o) ==
    LET d == FromOrdinal(o)
    IN  Decimal(d.year) \o "-" \o TwoDigits(d.month) \o "-" \o TwoDigits(d.day)

-----------------------------------------------------------------------------
(* parse_transaction_date                                                  *)

NoDate == -1

AllDigits(f) == \A i \in 1..Len(f) : IsDigit(CharAt(f, i))

RECURSIVE Number(_)
Number(f) ==
    IF Len(f) = 0 THEN 0
    ELSE 10 * Number(SubSeq(f, 1, Len(f) - 1)) + DigitVal(CharAt(f, Len(f)))

\* %Y: \d\d\d\d
MatchesYear(f) == Len(f) = 4 /\ AllDigits(f)

\* %m: 1[0-2]|0[1-9]|[1-9]
MatchesMonth(f) ==
    /\ Len(f) \in 1..2
    /\ AllDigits(f)
    /\ Number(f) \in 1..12

\* %d: 3[0-1]|[1-2]\d|0[1-9]|[1-9]| [1-9]
MatchesDay(f) ==
    \/ /\ Len(f) \in 1..2
       /\ AllDigits(f)
       /\ Number(f) \in 1..31
    \/ /\ Len(f) = 2
       /\ CharAt(f, 1) = " "
       /\ IsDigit(CharAt(f, 2))
       /\ DigitVal(CharAt(f, 2)) \in 1..9

FieldNumber(f) == IF CharAt(f, 1) = " " THEN Number(SubSeq(f, 2, Len(f))) ELSE Number(f)

\* the five formats: the order of the fields and the separator
Formats ==
    << [order |-> "YMD", sep |-> "-"],
       [order |-> "DMY", sep |-> "-"],
       [order |-> "DMY", sep |-> "/"],
       [order |-> "YMD", sep |-> "/"],
       [order |-> "DMY", sep |-> "."] >>

\* datetime.strptime(s, fmt): the ordinal of the date, or NoDate for ValueError
Strptime(s, fmt) ==
    LET f == Split(s, fmt.sep)
    IN  IF Len(f) # 3 THEN NoDate
        ELSE LET yf == IF fmt.order = "YMD" THEN f[1] ELSE f[3]
                 df == IF fmt.order = "YMD" THEN f[3] ELSE f[1]
             IN  IF MatchesYear(yf) /\ MatchesMonth(f[2]) /\ MatchesDay(df)
                    /\ ValidDate(Number(yf), Number(f[2]), FieldNumber(df))
                 THEN Ordinal(Number(yf), Number(f[2]), FieldNumber(df))
                 ELSE NoDate

RECURSIVE TryFormats(_, _)
TryFormats(s, i) ==
    IF i > Len(Formats) THEN NoDate
    ELSE LET date == Strptime(s, Formats[i])
         IN  IF date # NoDate THEN date ELSE TryFormats(s, i + 1)

\* a parser that falls back to a default date instead of returning None
ParseWithDefaultDate(date_str) ==
    IF TryFormats(Strip(date_str), 1) # NoDate
    THEN TryFormats(Strip(date_str), 1)
    ELSE Ordinal(1970, 1, 1)

parse_transaction_date(date_str) == TryFormats(Strip(date_str), 1)

-----------------------------------------------------------------------------
(* categorize_transaction                                                  *)

AnyIn(keywords, s) == \E k \in keywords : Contains(s, k)

\* the unsecured loans tested before the secured loans
CategorizeUnsecuredFirst(description) ==
    LET desc_upper == Upper(description)
    IN  IF AnyIn({"CREDIT CARD", "CC PAYMENT", "CC EMI", "CARD PAYMENT"}, desc_upper)
        THEN "credit_card"
        ELSE IF AnyIn({"PERSONAL LOAN", "PL EMI", "CONSUMER LOAN"}, desc_upper)
        THEN "personal_loan"
        ELSE IF AnyIn({"EDUCATION LOAN", "STUDENT LOAN"}, desc_upper)
        THEN "education_loan"
        ELSE IF AnyIn({"HOME LOAN", "HOUSING LOAN", "MORTGAGE", "HL EMI"}, desc_upper)
        THEN "home_loan"
        ELSE IF AnyIn({"CAR LOAN", "AUTO LOAN", "VEHICLE LOAN", "CAR EMI"}, desc_upper)
        THEN "car_loan"
        ELSE IF AnyIn({"GOLD LOAN", "LOAN AGAINST PROPERTY"}, desc_upper)
        THEN "secured_loan"
        ELSE IF AnyIn({"LIFE INSURANCE", "LIC PREMIUM"}, desc_upper)
        THEN "life_insurance"
        ELSE IF AnyIn({"HEALTH INSURANCE", "MEDICAL INSURANCE"}, desc_upper)
        THEN "health_insurance"
        ELSE "other"

categorize_transaction(description) ==
    LET desc_upper == Upper(description)
    IN  IF AnyIn({"CREDIT CARD", "CC PAYMENT", "CC EMI", "CARD PAYMENT"}, desc_upper)
        THEN "credit_card"
        ELSE IF AnyIn({"HOME LOAN", "HOUSING LOAN", "MORTGAGE", "HL EMI"}, desc_upper)
        THEN "home_loan"
        ELSE IF AnyIn({"CAR LOAN", "AUTO LOAN", "VEHICLE LOAN", "CAR EMI"}, desc_upper)
        THEN "car_loan"
        ELSE IF AnyIn({"GOLD LOAN", "LOAN AGAINST PROPERTY"}, desc_upper)
        THEN "secured_loan"
        ELSE IF AnyIn({"PERSONAL LOAN", "PL EMI", "CONSUMER LOAN"}, desc_upper)
        THEN "personal_loan"
        ELSE IF AnyIn({"EDUCATION LOAN", "STUDENT LOAN"}, desc_upper)
        THEN "education_loan"
        ELSE IF AnyIn({"LIFE INSURANCE", "LIC PREMIUM"}, desc_upper)
        THEN "life_insurance"
        ELSE IF AnyIn({"HEALTH INSURANCE", "MEDICAL INSURANCE"}, desc_upper)
        THEN "health_insurance"
        ELSE "other"

-----------------------------------------------------------------------------
(* calculate_cibil_score: the normaliser and the date range.               *)
(* Double rounding is not modelled: where a double lands one unit in the   *)
(* last place beside the exact value, int() and round() of the code may    *)
(* differ by one step from the values computed here.                       *)

\* CIBIL_FACTORS
CIBIL_FACTORS ==
    [payment_history |-> Rat(35, 100),
     credit_utilization |-> Rat(30, 100),
     credit_history_length |-> Rat(15, 100),
     credit_mix |-> Rat(10, 100),
     new_credit |-> Rat(10, 100)]

\* {**txn, 'parsed_date': date, 'category': categorize_transaction(...)}
Normalized(txn) ==
    [date |-> txn.date, description |-> txn.description, amount |-> txn.amount,
     parsed_date |-> parse_transaction_date(txn.date),
     category |-> categorize_transaction(txn.description)]

\* the loop that keeps the transactions whose date parses
DatedTransactions(txns) ==
    LET parsed == Tuple([i \in 1..Len(txns) |-> Normalized(txns[i])])
    IN  SelectSeq(parsed, LAMBDA t : t.parsed_date # NoDate)

ParsedDates(dated) == Tuple([i \in 1..Len(dated) |-> dated[i].parsed_date])

SeqMin(s) == CHOOSE x \in {s[i] : i \in 1..Len(s)} : \A j \in 1..Len(s) : x <= s[j]

SeqMax(s) == CHOOSE x \in {s[i] : i \in 1..Len(s)} : \A j \in 1..Len(s) : x >= s[j]

StartDate(dated) == SeqMin(ParsedDates(dated))

EndDate(dated) == SeqMax(ParsedDates(dated))

\* max(1, (end_date - start_date).days / 30)
DateRangeMonths(dated) == RMax(RInt(1), Rat(EndDate(dated) - StartDate(dated), 30))

DateRangeYears(dated) == RDiv(DateRangeMonths(dated), RInt(12))

\* [t for t in dated_transactions if t['category'] == cat]
Bucket(dated, cat) == SelectSeq(dated, LAMBDA t : t.category = cat)

AllCreditTransactions(dated) ==
    Bucket(dated, "credit_card") \o Bucket(dated, "home_loan") \o Bucket(dated, "car_loan")
        \o Bucket(dated, "personal_loan") \o Bucket(dated, "education_loan")

\* sorted(...): s[i] goes to the place after the smaller elements and the
\* equal elements before it
Sorted(s) ==
    LET place == Tuple([i \in 1..Len(s) |->
                     Cardinality({j \in 1..Len(s) : s[j] < s[i] \/ (s[j] = s[i] /\ j < i)}) + 1])
    IN  Tuple([k \in 1..Len(s) |-> s[CHOOSE i \in 1..Len(s) : place[i] = k]])

\* f"{x:.1f}" for x >= 0
FormatFixed1(x) ==
    LET tenths == Round(x, 1)[1] * (10 \div Round(x, 1)[2])
    IN  Decimal(tenths \div 10) \o "." \o Decimal(tenths % 10)

-----------------------------------------------------------------------------
(* The five factor scorers.                                                *)

\* the gaps of more than 45 days between consecutive sorted payment dates
GapCount(payment_dates) ==
    Cardinality({i \in 2..Len(payment_dates) :
                    payment_dates[i] - payment_dates[i - 1] > 45})

\* the two upper consistency scores exchanged
PaymentConsistencySwapped(payments_per_month) ==
    IF RGe(payments_per_month, Rat(3, 2)) THEN 90
    ELSE IF RGe(payments_per_month, RInt(1)) THEN 95
    ELSE IF RGe(payments_per_month, Rat(1, 2)) THEN 75
    ELSE 60

PaymentConsistency(payments_per_month) ==
    IF RGe(payments_per_month, Rat(3, 2)) THEN 95
    ELSE IF RGe(payments_per_month, RInt(1)) THEN 90
    ELSE IF RGe(payments_per_month, Rat(1, 2)) THEN 75
    ELSE 60

GapPenalty(gaps) == IF gaps * 5 < 20 THEN gaps * 5 ELSE 20

PaymentHistory(dated) ==
    LET pool == AllCreditTransactions(dated)
        total_expected_payments == Len(pool)
        months_covered == DateRangeMonths(dated)
        payments_per_month ==
            RDiv(RInt(total_expected_payments), RMax(RInt(1), months_covered))
        payment_dates == Sorted(ParsedDates(pool))
        gap_penalty == GapPenalty(GapCount(payment_dates))
    IN  IF total_expected_payments = 0
        THEN [score |-> RInt(50), remarks |-> "No credit payment history found"]
        ELSE [score |-> RMax(RInt(50),
                             RInt(PaymentConsistency(payments_per_month) - gap_penalty)),
              remarks |-> Decimal(total_expected_payments) \o " payments tracked over "
                          \o FormatFixed1(months_covered) \o " months"]

\* sum(abs(t['amount']) for t in txns): the terms are added from the left
RECURSIVE SumAbsUpTo(_, _)
SumAbsUpTo(txns, i) ==
    IF i = 0 THEN Finite(RInt(0), 0)
    ELSE FAdd(SumAbsUpTo(txns, i - 1), FAbs(txns[i].amount))

SumAbsAmounts(txns) == SumAbsUpTo(txns, Len(txns))

\* the piecewise score of a utilization ratio
UtilizationScore(cur) ==
    IF RLe(cur, Rat(30, 100))
    THEN [score |-> RInt(95), status |-> "Excellent"]
    ELSE IF RLe(cur, Rat(50, 100))
    THEN [score |-> RSub(RInt(85), RMul(RDiv(RSub(cur, Rat(30, 100)), Rat(20, 100)), RInt(20))),
          status |-> "Good"]
    ELSE IF RLe(cur, Rat(70, 100))
    THEN [score |-> RSub(RInt(65), RMul(RDiv(RSub(cur, Rat(50, 100)), Rat(20, 100)), RInt(20))),
          status |-> "Fair"]
    ELSE [score |-> RMax(RInt(30),
                         RSub(RInt(45), RMul(RDiv(RSub(cur, Rat(70, 100)), Rat(30, 100)), RInt(15)))),
          status |-> "High"]

\* raised is TRUE when estimated_monthly_bill / estimated_credit_limit divides by zero
CreditUtilization(dated) ==
    LET cc_payments == Bucket(dated, "credit_card")
        total_cc_payments == SumAbsAmounts(cc_payments)
        num_cc_payments == Len(cc_payments)
        avg_payment == FScale(total_cc_payments, Rat(1, num_cc_payments))
        estimated_monthly_bill == FScale(avg_payment, RInt(30))
        estimated_credit_limit == FScale(estimated_monthly_bill, Rat(5, 2))
        cur == FMinOne(FDiv(estimated_monthly_bill, estimated_credit_limit))
    IN  IF cc_payments = <<>>
        THEN [raised |-> FALSE, score |-> RInt(70), utilization_percentage |-> 0,
              status |-> "No Credit Card Usage"]
        ELSE IF estimated_credit_limit.kind = "finite" /\ estimated_credit_limit.m[1] = 0
        THEN [raised |-> TRUE, score |-> RInt(0), utilization_percentage |-> 0,
              status |-> "ZeroDivisionError"]
        ELSE LET piece == UtilizationScore(cur)
             IN  [raised |-> FALSE, score |-> piece.score,
                  utilization_percentage |-> RTrunc(RMul(cur, RInt(100))),
                  status |-> piece.status]

\* the bands applied to the months instead of the years
CreditHistoryLengthInMonths(dated) ==
    LET credit_age_years == DateRangeMonths(dated)
    IN  IF RGe(credit_age_years, RInt(7)) THEN [score |-> RInt(95), status |-> "Excellent"]
        ELSE IF RGe(credit_age_years, RInt(5)) THEN [score |-> RInt(85), status |-> "Very Good"]
        ELSE IF RGe(credit_age_years, RInt(3)) THEN [score |-> RInt(70), status |-> "Good"]
        ELSE IF RGe(credit_age_years, RInt(1))
        THEN [score |-> RAdd(RInt(55), RMul(credit_age_years, RInt(5))), status |-> "Fair"]
        ELSE [score |-> RInt(50), status |-> "Limited"]

CreditHistoryLength(dated) ==
    LET credit_age_years == DateRangeYears(dated)
    IN  IF RGe(credit_age_years, RInt(7)) THEN [score |-> RInt(95), status |-> "Excellent"]
        ELSE IF RGe(credit_age_years, RInt(5)) THEN [score |-> RInt(85), status |-> "Very Good"]
        ELSE IF RGe(credit_age_years, RInt(3)) THEN [score |-> RInt(70), status |-> "Good"]
        ELSE IF RGe(credit_age_years, RInt(1))
        THEN [score |-> RAdd(RInt(55), RMul(credit_age_years, RInt(5))), status |-> "Fair"]
        ELSE [score |-> RInt(50), status |-> "Limited"]

\* the bucket of each credit type name
CreditTypeBuckets ==
    [name \in {"Credit Card", "Home Loan", "Car Loan", "Personal Loan", "Education Loan",
               "Life Insurance", "Health Insurance"} |->
        CASE name = "Credit Card" -> "credit_card"
          [] name = "Home Loan" -> "home_loan"
          [] name = "Car Loan" -> "car_loan"
          [] name = "Personal Loan" -> "personal_loan"
          [] name = "Education Loan" -> "education_loan"
          [] name = "Life Insurance" -> "life_insurance"
          [] name = "Health Insurance" -> "health_insurance"]

CreditTypesPresent(dated) ==
    {name \in DOMAIN CreditTypeBuckets : Bucket(dated, CreditTypeBuckets[name]) # <<>>}

CreditMix(dated) ==
    LET num_credit_types == Cardinality(CreditTypesPresent(dated))
    IN  IF num_credit_types >= 5 THEN [score |-> RInt(95), status |-> "Excellent Mix"]
        ELSE IF num_credit_types = 4 THEN [score |-> RInt(85), status |-> "Very Good Mix"]
        ELSE IF num_credit_types = 3 THEN [score |-> RInt(70), status |-> "Good Mix"]
        ELSE IF num_credit_types = 2 THEN [score |-> RInt(55), status |-> "Limited Mix"]
        ELSE [score |-> RInt(40), status |-> "Poor Mix"]

\* first_appearance_dates[cat]: the date of the first transaction of the
\* category in the order of the list
FirstAppearanceDate(dated, cat) ==
    dated[CHOOSE i \in 1..Len(dated) :
              /\ dated[i].category = cat
              /\ \A j \in 1..(i - 1) : dated[j].category # cat].parsed_date

RecentInquiries(dated) ==
    LET recent_threshold == EndDate(dated) - 180
    IN  Cardinality({cat \in {dated[i].category : i \in 1..Len(dated)} :
                        FirstAppearanceDate(dated, cat) >= recent_threshold})

NewCredit(dated) ==
    LET recent_inquiries == RecentInquiries(dated)
    IN  IF recent_inquiries = 0 THEN [score |-> RInt(90), status |-> "No Recent Inquiries"]
        ELSE IF recent_inquiries <= 2 THEN [score |-> RInt(80), status |-> "Minimal Inquiries"]
        ELSE IF recent_inquiries <= 4 THEN [score |-> RInt(65), status |-> "Moderate Inquiries"]
        ELSE [score |-> RInt(50), status |-> "High Inquiry Activity"]

-----------------------------------------------------------------------------
(* The aggregator, the status band, the recommendations and the report.    *)

\* the five component scores
Scores(dated) ==
    [payment_history |-> PaymentHistory(dated).score,
     credit_utilization |-> CreditUtilization(dated).score,
     credit_history_length |-> CreditHistoryLength(dated).score,
     credit_mix |-> CreditMix(dated).score,
     new_credit |-> NewCredit(dated).score]

RawScore(scores) ==
    RAdd(RAdd(RAdd(RAdd(
        RMul(scores.payment_history, CIBIL_FACTORS.payment_history),
        RMul(scores.credit_utilization, CIBIL_FACTORS.credit_utilization)),
        RMul(scores.credit_history_length, CIBIL_FACTORS.credit_history_length)),
        RMul(scores.credit_mix, CIBIL_FACTORS.credit_mix)),
        RMul(scores.new_credit, CIBIL_FACTORS.new_credit))

\* int(300 + (raw_score / 100.0) * 600)
FinalCibilScore(scores) ==
    RTrunc(RAdd(RInt(300), RMul(RDiv(RawScore(scores), RInt(100)), RInt(600))))

StatusBand(final_cibil_score) ==
    IF final_cibil_score >= 850
    THEN [status |-> "Exceptional (Peak)", loan_approval |-> "Maximum"]
    ELSE IF final_cibil_score >= 800
    THEN [status |-> "Excellent+", loan_approval |-> "Very High"]
    ELSE IF final_cibil_score >= 750
    THEN [status |-> "Excellent", loan_approval |-> "Very High"]
    ELSE IF final_cibil_score >= 700
    THEN [status |-> "Good", loan_approval |-> "High"]
    ELSE IF final_cibil_score >= 650
    THEN [status |-> "Fair", loan_approval |-> "Moderate"]
    ELSE IF final_cibil_score >= 600
    THEN [status |-> "Average", loan_approval |-> "Low"]
    ELSE [status |-> "Poor", loan_approval |-> "Very Low"]

\* recommendations.append(msg) when the condition holds
AppendIf(recommendations, cond, msg) ==
    IF cond THEN Append(recommendations, msg) ELSE recommendations

\* the payment-history message given below 70 instead of 80
RecommendationsLowThreshold(scores) ==
    LET r1 == AppendIf(<<>>, RLt(scores.payment_history, RInt(70)),
                  "Maintain consistent monthly payments without delays")
        r2 == AppendIf(r1, RLt(scores.credit_utilization, RInt(70)),
                  "Reduce credit card utilization below 30% of limit")
        r3 == AppendIf(r2, RLt(scores.credit_history_length, RInt(70)),
                  "Keep old credit accounts active to build credit age")
        r4 == AppendIf(r3, RLt(scores.credit_mix, RInt(70)),
                  "Diversify credit portfolio with mix of secured and unsecured credit")
        r5 == AppendIf(r4, RLt(scores.new_credit, RInt(75)),
                  "Avoid multiple credit applications in short period")
    IN  AppendIf(r5, FinalCibilScore(scores) < 750,
            "Focus on timely payments to reach excellent score range (750+)")

Recommendations(scores) ==
    LET r1 == AppendIf(<<>>, RLt(scores.payment_history, RInt(80)),
                  "Maintain consistent monthly payments without delays")
        r2 == AppendIf(r1, RLt(scores.credit_utilization, RInt(70)),
                  "Reduce credit card utilization below 30% of limit")
        r3 == AppendIf(r2, RLt(scores.credit_history_length, RInt(70)),
                  "Keep old credit accounts active to build credit age")
        r4 == AppendIf(r3, RLt(scores.credit_mix, RInt(70)),
                  "Diversify credit portfolio with mix of secured and unsecured credit")
        r5 == AppendIf(r4, RLt(scores.new_credit, RInt(75)),
                  "Avoid multiple credit applications in short period")
    IN  AppendIf(r5, FinalCibilScore(scores) < 750,
            "Focus on timely payments to reach excellent score range (750+)")

\* one entry of score_breakdown without its evidence fields
Component(score, weight, weightage) ==
    [score |-> Round(score, 1), weightage |-> weightage,
     contribution |-> Round(RMul(score, weight), 1)]

ScoreBreakdown(dated) ==
    LET payment == PaymentHistory(dated)
        utilization == CreditUtilization(dated)
        history == CreditHistoryLength(dated)
        mix == CreditMix(dated)
        inquiries == NewCredit(dated)
        types == CreditTypesPresent(dated)
    IN  [payment_history |->
            [base |-> Component(payment.score, CIBIL_FACTORS.payment_history, "35%"),
             remarks |-> payment.remarks],
         credit_utilization |->
            [base |-> Component(utilization.score, CIBIL_FACTORS.credit_utilization, "30%"),
             utilization_percentage |-> utilization.utilization_percentage,
             status |-> utilization.status],
         credit_history_length |->
            [base |-> Component(history.score, CIBIL_FACTORS.credit_history_length, "15%"),
             years |-> Round(DateRangeYears(dated), 2),
             status |-> history.status],
         credit_mix |->
            [base |-> Component(mix.score, CIBIL_FACTORS.credit_mix, "10%"),
             types_count |-> Cardinality(types),
             types |-> types,
             status |-> mix.status],
         new_credit |->
            [base |-> Component(inquiries.score, CIBIL_FACTORS.new_credit, "10%"),
             recent_inquiries |-> RecentInquiries(dated),
             status |-> inquiries.status]]

TransactionSummary(dated) ==
    [total_transactions |-> Len(dated),
     credit_card_payments |-> Len(Bucket(dated, "credit_card")),
     home_loan_payments |-> Len(Bucket(dated, "home_loan")),
     car_loan_payments |-> Len(Bucket(dated, "car_loan")),
     personal_loan_payments |-> Len(Bucket(dated, "personal_loan")),
     education_loan_payments |-> Len(Bucket(dated, "education_loan")),
     insurance_payments |->
        Len(Bucket(dated, "life_insurance")) + Len(Bucket(dated, "health_insurance"))]

Report(dated) ==
    LET scores == Scores(dated)
        final_cibil_score == FinalCibilScore(scores)
        band == StatusBand(final_cibil_score)
    IN  [cibil_score |-> final_cibil_score,
         status |-> band.status,
         loan_approval_likelihood |-> band.loan_approval,
         analysis_period |->
            [start_date |-> FormatDate(StartDate(dated)),
             end_date |-> FormatDate(EndDate(dated)),
             total_months |-> Round(DateRangeMonths(dated), 1),
             total_years |-> Round(DateRangeYears(dated), 2)],
         score_breakdown |-> ScoreBreakdown(dated),
         transaction_summary |-> TransactionSummary(dated),
         recommendations |-> Recommendations(scores)]

Raise(exc, message) == [kind |-> "raise", exc |-> exc, message |-> message]

Return(report) == [kind |-> "return", report |-> report]

\* the scoring of a non-empty list of dated transactions
ScoreDated(dated) ==
    IF CreditUtilization(dated).raised
    THEN Raise("ZeroDivisionError", "float division by zero")
    ELSE Return(Report(dated))

calculate_cibil_score(txns) ==
    LET dated == DatedTransactions(txns)
    IN  IF txns = <<>> THEN Raise("ValueError", "No transactions provided")
        ELSE IF dated = <<>> THEN Raise("ValueError", "No valid transaction dates found")
        ELSE ScoreDated(dated)

-----------------------------------------------------------------------------
(* analyze_cibil_score: GET /analyze-cibil/{session_id}                    *)

\* the classes an exception of the requests library is an instance of
ExceptionClasses(exc) ==
    CASE exc = "ConnectionError" -> {"ConnectionError", "RequestException"}
      [] exc = "ConnectTimeout" -> {"ConnectTimeout", "ConnectionError", "Timeout",
                                    "RequestException"}
      [] exc = "ReadTimeout" -> {"ReadTimeout", "Timeout", "RequestException"}
      [] exc = "JSONDecodeError" -> {"JSONDecodeError", "ValueError", "RequestException"}
      [] OTHER -> {exc}

\* os.getenv("DATA_PROCESSOR_URL", "http://localhost:8000")
DATA_PROCESSOR_BASE_URL == "http://localhost:8000"

HTTPException(status_code, detail) ==
    [kind |-> "HTTPException", status_code |-> status_code, detail |-> detail]

\* the except clauses with the Timeout clause first
HandleExceptionTimeoutFirst(exc, message) ==
    IF "Timeout" \in ExceptionClasses(exc)
    THEN HTTPException(504, "Request timeout - data processor not responding")
    ELSE IF "ConnectionError" \in ExceptionClasses(exc)
    THEN HTTPException(503, "Cannot connect to data processor at " \o DATA_PROCESSOR_BASE_URL)
    ELSE IF "ValueError" \in ExceptionClasses(exc)
    THEN HTTPException(400, message)
    ELSE HTTPException(500, "Internal server error: " \o message)

\* the except clauses, in their order
HandleException(exc, message) ==
    IF "ConnectionError" \in ExceptionClasses(exc)
    THEN HTTPException(503, "Cannot connect to data processor at " \o DATA_PROCESSOR_BASE_URL)
    ELSE IF "Timeout" \in ExceptionClasses(exc)
    THEN HTTPException(504, "Request timeout - data processor not responding")
    ELSE IF "ValueError" \in ExceptionClasses(exc)
    THEN HTTPException(400, message)
    ELSE HTTPException(500, "Internal server error: " \o message)

\* the list the handler passes to calculate_cibil_score, or <<>> when it
\* does not come to the call
FetchedTransactions(fetched) ==
    IF fetched.kind = "reply" /\ fetched.status_code = 200 /\ fetched.body.json = "object"
       /\ fetched.body.has_key
    THEN fetched.body.relevant_transactions
    ELSE <<>>

\* the handler's outcome for a session id, the outcome of requests.get and the clock
analyze_cibil_score(session_id, fetched, now) ==
    IF fetched.kind = "raise" THEN HandleException(fetched.exc, fetched.exc)
    ELSE IF fetched.status_code = 404
    THEN HTTPException(404, "Session '" \o session_id \o "' not found. "
                            \o "Please ensure data processor has this session.")
    ELSE IF fetched.status_code # 200
    THEN HTTPException(fetched.status_code,
                       "Failed to fetch data from processor: " \o fetched.body.text)
    ELSE IF fetched.body.json = "invalid"
    THEN HandleException("JSONDecodeError", "Expecting value: line 1 column 1 (char 0)")
    ELSE IF fetched.body.json # "object"
    THEN HandleException("AttributeError", "'list' object has no attribute 'get'")
    ELSE IF FetchedTransactions(fetched) = <<>>
    THEN HTTPException(400, "No transactions found in CSV for this session")
    ELSE LET r == calculate_cibil_score(FetchedTransactions(fetched))
         IN  IF r.kind = "raise" THEN HandleException(r.exc, r.message)
             ELSE [kind |-> "ok",
                   body |-> r.report @@ [session_id |-> session_id, timestamp |-> now,
                                         methodology |-> "TransUnion CIBIL India 2025"]]

\* whether the handler reaches the call of calculate_cibil_score
CallsEngine(fetched) == FetchedTransactions(fetched) # <<>>

-----------------------------------------------------------------------------
(* The inputs the operations are exercised on.                             *)

MaxTxns == 3

MaxPayments == 4

MaxOthers == 2

\* a transaction whose amount is the number mantissa e+exponent
TxnE(date, description, mantissa, exponent) ==
    [date |-> date, description |-> description, amount |-> <<mantissa, exponent>>]

Txn(date, description, amount) == TxnE(date, description, amount, 0)

\* a date written in the i-th accepted format
WriteDate(o, i) ==
    LET d == FromOrdinal(o)
        sep == Formats[i].sep
    IN  IF Formats[i].order = "YMD"
        THEN Decimal(d.year) \o sep \o TwoDigits(d.month) \o sep \o TwoDigits(d.day)
        ELSE TwoDigits(d.day) \o sep \o TwoDigits(d.month) \o sep \o Decimal(d.year)

RECURSIVE SeqsUpTo(_, _)
SeqsUpTo(S, n) ==
    IF n = 0 THEN {<<>>}
    ELSE SeqsUpTo(S, n - 1) \cup {Append(q, x) : q \in SeqsUpTo(S, n - 1), x \in S}

\* short lists mixing formats, categories, unparseable dates and a zero amount
SmallPool ==
    { Txn("2023-01-10", "CREDIT CARD PAYMENT", 5000),
      Txn("15/11/2023", "cc emi", 0),
      Txn(" 2016-03-01 ", "Credit Card bill", 700),
      Txn("2024-06-01", "HOME LOAN EMI", 20000),
      Txn("01-02-2022", "CAR LOAN EMI PAYMENT", -9000),
      Txn("2024/06/20", "GOLD LOAN EMI", 3000),
      Txn("20.06.2024", "LIC PREMIUM", 1200),
      Txn("32/13/2024", "CREDIT CARD PAYMENT", 5000) }

SmallLists == SeqsUpTo(SmallPool, MaxTxns)

\* date texts that no format accepts, alone and before a record that parses
BadDates ==
    { "not-a-date", "", "2023-02-29", "2024-01-015", "0000-01-01", "2024-01/01",
      "01-01-24", "2024-13-01", "00/01/2024", "31.04.2024" }

BadDateLists ==
    {<<Txn(d, "GROCERY", 100)>> : d \in BadDates}
    \cup {<<Txn(d, "HOME LOAN EMI", 100), Txn("5/1/2024", "SALARY", 100)>> : d \in BadDates}

\* descriptions that match no keyword set, one, or several
Descriptions ==
    { "CREDIT CARD PAYMENT", "cc payment hdfc", "Cc Emi 3/12", "CARD PAYMENT",
      "HOME LOAN EMI", "Housing Loan", "MORTGAGE", "HL EMI",
      "CAR LOAN EMI PAYMENT", "auto loan", "VEHICLE LOAN", "CAR EMI",
      "GOLD LOAN", "LOAN AGAINST PROPERTY",
      "PERSONAL LOAN EMI", "PL EMI", "consumer loan",
      "EDUCATION LOAN", "student loan",
      "LIFE INSURANCE", "LIC PREMIUM", "HEALTH INSURANCE", "Medical Insurance",
      "HOME LOAN CREDIT CARD PAYMENT", "CAR LOAN HOME LOAN", "PERSONAL LOAN AGAINST PROPERTY",
      "GOLD LOAN CAR EMI", "STUDENT LOAN PL EMI", "LIC PREMIUM EDUCATION LOAN",
      "MEDICAL INSURANCE LIFE INSURANCE", "HEALTH INSURANCE CC EMI",
      "SALARY", "LOAN", "CREDITCARD", "" }

DescriptionLists == {<<Txn("2024-03-15", d, 250)>> : d \in Descriptions}

\* n credit-card payments every `spacing` days from 2023-01-01, after other transactions
EvenStart == Ordinal(2023, 1, 1)

Spacings == {0, 24, 36, 60, 120}

EvenPayments(n, spacing) ==
    Tuple([i \in 1..n |->
              Txn(WriteDate(EvenStart + (i - 1) * spacing, 1), "CREDIT CARD PAYMENT", 5000)])

OtherPool ==
    { Txn(WriteDate(EvenStart + 45, 1), "HOME LOAN EMI", 20000),
      Txn(WriteDate(EvenStart + 135, 2), "HOME LOAN EMI", 20000),
      Txn(WriteDate(EvenStart + 360, 3), "SALARY", 100) }

EvenLists ==
    {others \o EvenPayments(n, spacing) :
        others \in SeqsUpTo(OtherPool, MaxOthers), n \in 0..MaxPayments, spacing \in Spacings}

\* one transaction of each description on a day of each of `months` consecutive months,
\* in chronological order, written in format i
Monthly(year, month, months, entries, i) ==
    Tuple([k \in 1..(months * Len(entries)) |->
        LET m == (month - 1) + (k - 1) \div Len(entries)
            e == entries[((k - 1) % Len(entries)) + 1]
        IN  Txn(WriteDate(Ordinal(year + m \div 12, (m % 12) + 1, e.day), i),
                e.description, e.amount)])

Entry(day, description, amount) ==
    [day |-> day, description |-> description, amount |-> amount]

\* 24 monthly credit-card payments of 5000 and a home-loan EMI every month
ScenarioLists ==
    {Monthly(2022, month, 24,
             <<Entry(days[1], "CREDIT CARD PAYMENT", 5000), Entry(days[2], "HOME LOAN EMI", 30000)>>,
             i) :
        month \in 1..12, days \in {<<5, 10>>, <<28, 1>>},
        i \in 1..Len(Formats)}

\* more than three years of monthly payments on three credit types
LongLists ==
    {Monthly(2020, month, 40,
             <<Entry(3, "CREDIT CARD PAYMENT", 5000), Entry(7, "HOME LOAN EMI", 30000),
               Entry(12, "CAR LOAN EMI", 9000)>>, 1) : month \in {1, 7}}

\* amounts near the largest double: 1e306, 3e306, -3e306, 1e308, 2e308
HugeAmounts == {<<1, 306>>, <<3, 306>>, <<-3, 306>>, <<1, 308>>, <<2, 308>>}

\* one or two credit-card payments of huge or ordinary amounts
HugeLists ==
    SeqsUpTo({TxnE("2024-03-15", "CREDIT CARD PAYMENT", a[1], a[2]) :
                 a \in HugeAmounts \cup {<<5000, 0>>}}, 2) \ {<<>>}

\* seven years of two home-loan EMIs a month, after one payment on each of
\* four other credit types in the first month
PeakLists ==
    {<<TxnE("2016-01-05", "CREDIT CARD PAYMENT", a[1], a[2]),
       Txn("2016-01-06", "CAR LOAN EMI", 9000),
       Txn("2016-01-07", "PERSONAL LOAN EMI", 4000),
       Txn("2016-01-08", "LIC PREMIUM", 1200)>>
        \o Monthly(2016, 1, 85,
                   <<Entry(5, "HOME LOAN EMI", 30000), Entry(20, "HOME LOAN EMI", 30000)>>, 1) :
        a \in {<<5000, 0>>, <<3, 306>>, <<1, 308>>}}

InputLists ==
    SmallLists \cup BadDateLists \cup DescriptionLists \cup EvenLists \cup ScenarioLists
        \cup LongLists \cup HugeLists \cup PeakLists

SessionIds == {"abc123", "s-2"}

Clock == {"2025-01-01T10:00:00", "2025-01-01T10:00:01"}

ReplyBodies ==
    { [json |-> "invalid", text |-> "<html>Bad Gateway</html>"],
      [json |-> "array", text |-> "[]"],
      [json |-> "object", text |-> "{}", has_key |-> FALSE, relevant_transactions |-> <<>>] }
    \cup { [json |-> "object", text |-> "{...}", has_key |-> TRUE, relevant_transactions |-> l] :
             l \in SeqsUpTo(SmallPool, 1) }

StatusCodes == {200, 204, 404, 500, 502}

UpstreamOutcomes ==
    { [kind |-> "raise", exc |-> e] :
        e \in {"ConnectionError", "ConnectTimeout", "ReadTimeout", "TooManyRedirects"} }
    \cup { [kind |-> "reply", status_code |-> c, body |-> b] : c \in StatusCodes, b \in ReplyBodies }

-----------------------------------------------------------------------------
(* The state machine: one call of the engine or one request per behaviour. *)

Init ==
    /\ pc = "idle"
    /\ transactions = <<>>
    /\ dated_transactions = <<>>
    /\ result = [kind |-> "none"]
    /\ upstream = [kind |-> "none"]
    /\ response = [kind |-> "none"]
    /\ engine_calls = <<>>

\* a caller invokes calculate_cibil_score(txns)
CalculateCibilScore ==
    /\ pc = "idle"
    /\ \E txns \in InputLists :
          /\ transactions' = txns
          /\ dated_transactions' = DatedTransactions(txns)
          /\ result' = calculate_cibil_score(txns)
          /\ engine_calls' = Append(engine_calls, txns)
    /\ pc' = "returned"
    /\ UNCHANGED <<upstream, response>>

\* a client requests /analyze-cibil/{session_id}
AnalyzeCibilScore ==
    /\ pc = "idle"
    /\ \E session_id \in SessionIds, fetched \in UpstreamOutcomes, now \in Clock :
          /\ upstream' = fetched
          /\ response' = analyze_cibil_score(session_id, fetched, now)
          /\ IF CallsEngine(fetched)
             THEN /\ transactions' = FetchedTransactions(fetched)
                  /\ dated_transactions' = DatedTransactions(FetchedTransactions(fetched))
                  /\ result' = calculate_cibil_score(FetchedTransactions(fetched))
                  /\ engine_calls' = Append(engine_calls, FetchedTransactions(fetched))
             ELSE UNCHANGED <<transactions, dated_transactions, result, engine_calls>>
    /\ pc' = "responded"

Next == CalculateCibilScore \/ AnalyzeCibilScore

Spec == Init /\ [][Next]_vars

-----------------------------------------------------------------------------
(* Properties.                                                             *)

\* calculate_cibil_score has been called in this behaviour
EngineRan == engine_calls # <<>>

\* a date text that one of the five formats accepts
DateParses(date) ==
    \E k \in 1..Len(Formats) : Strptime(Strip(date), Formats[k]) # NoDate

SomeDateParses(txns) == \E i \in 1..Len(txns) : DateParses(txns[i].date)

Permuted(txns, p) == Tuple([i \in 1..Len(txns) |-> txns[p[i]]])

\* what C1 compares of two outcomes
Compared(r) ==
    IF r.kind = "return"
    THEN <<r.report.cibil_score, r.report.score_breakdown, r.report.recommendations>>
    ELSE <<r>>

\* C1: every permutation of the transaction list yields the same cibil_score,
\* the same score_breakdown and the same recommendations in the same order
\* (evaluated on the lists of at most MaxTxns + 1 records).
C1_DeterminismUnderReordering ==
    (EngineRan /\ Len(transactions) <= MaxTxns + 1) =>
        \A p \in Permutations(1..Len(transactions)) :
            Compared(calculate_cibil_score(Permuted(transactions, p))) = Compared(result)

\* C2: a list with at least one record whose date parses yields a report whose
\* cibil_score is an integer between 300 and 900.
C2_RangeInvariant ==
    (EngineRan /\ SomeDateParses(transactions)) =>
        /\ result.kind = "return"
        /\ result.report.cibil_score \in 300..900

\* C3: the empty list raises the empty-input error, a non-empty list none of
\* whose dates matches a format (such as the single record dated 32/13/2024)
\* raises the no-valid-dates error, and in both cases no report is returned.
C3_InputErrorTermination ==
    EngineRan =>
        /\ transactions = <<>> =>
              result = Raise("ValueError", "No transactions provided")
        /\ (transactions # <<>> /\ ~SomeDateParses(transactions)) =>
              result = Raise("ValueError", "No valid transaction dates found")
        /\ (\A i \in 1..Len(transactions) : transactions[i].date = "32/13/2024") =>
              result.kind = "raise"
        /\ (pc = "responded" /\ ~SomeDateParses(transactions)) =>
              response.kind = "HTTPException"

C3_Witness ==
    /\ EngineRan
    /\ Len(transactions) = 1
    /\ transactions[1].date = "32/13/2024"
    /\ result = Raise("ValueError", "No valid transaction dates found")

\* the records whose date parses
Parseable(txns) == SelectSeq(txns, LAMBDA t : DateParses(t.date))

\* C4: a list with at least one parseable date raises no error and yields
\* exactly the report of the list without its unparseable-date records, whose
\* total_transactions counts the parseable records only.
C4_PartialDataDegradation ==
    (EngineRan /\ SomeDateParses(transactions)) =>
        /\ result.kind = "return"
        /\ result = calculate_cibil_score(Parseable(transactions))
        /\ result.report.transaction_summary.total_transactions
              = Len(Parseable(transactions))

\* the sorted dates of the credit-card bucket of the last call
CardDates == Sorted(ParsedDates(Bucket(dated_transactions, "credit_card")))

EvenlySpaced(dates) ==
    \A i \in 2..(Len(dates) - 1) : dates[i + 1] - dates[i] = dates[2] - dates[1]

\* the records of the list outside the credit-card bucket
OutsideCardBucket(txns) ==
    SelectSeq(txns, LAMBDA t :
        ~DateParses(t.date) \/ categorize_transaction(t.description) # "credit_card")

\* the list with its credit-card bucket replaced by m payments every `step` days from `first`
WithCardPayments(txns, m, first, step) ==
    OutsideCardBucket(txns)
        \o Tuple([i \in 1..m |->
                     Txn(WriteDate(first + (i - 1) * step, 1), "CREDIT CARD PAYMENT", 5000)])

PaymentScore(r) == r.report.score_breakdown.payment_history.base.score

\* the Payment History score does not decrease from the last call to the call
\* on txns2, when both return a report over the same observed date range
NotDecreased(txns2) ==
    LET second == calculate_cibil_score(txns2)
    IN  (second.kind = "return"
         /\ second.report.analysis_period = result.report.analysis_period)
            => RGe(PaymentScore(second), PaymentScore(result))

\* the last call returned a report for a list whose credit-card bucket holds
\* n >= 1 evenly-spaced payments that n + 1 evenly-spaced payments can replace
\* over the same interval
EvenBucket ==
    /\ EngineRan
    /\ result.kind = "return"
    /\ Len(CardDates) >= 1
    /\ EvenlySpaced(CardDates)
    /\ (CardDates[Len(CardDates)] - CardDates[1]) % Len(CardDates) = 0

EvenStep == (CardDates[Len(CardDates)] - CardDates[1]) \div Len(CardDates)

\* C5 as stated: for every n >= 0, replacing n evenly-spaced credit-card
\* payments by n + 1 evenly-spaced payments over the same interval, the other
\* transactions and the date range being the same, never lowers the Payment
\* History score (for n = 0 the one payment falls on any day of the range).
C5_PaymentHistoryMonotone ==
    /\ EvenBucket =>
          NotDecreased(WithCardPayments(transactions, Len(CardDates) + 1,
                                        CardDates[1], EvenStep))
    /\ (EngineRan /\ result.kind = "return" /\ Len(CardDates) = 0) =>
          \A day \in StartDate(dated_transactions)..EndDate(dated_transactions) :
              NotDecreased(WithCardPayments(transactions, 1, day, 0))

\* C5 amended: for every n >= 1, when the n + 1 evenly-spaced payments are at
\* most 45 days apart, the Payment History score of the second report is
\* greater than or equal to that of the first.
C5_PaymentHistoryMonotoneOnTime ==
    (EvenBucket /\ EvenStep <= 45) =>
        NotDecreased(WithCardPayments(transactions, Len(CardDates) + 1,
                                      CardDates[1], EvenStep))

\* two payments 60 days apart replaced by three payments 30 days apart, the
\* date range unchanged and the score raised
C5_Witness ==
    /\ EvenBucket
    /\ Len(CardDates) = 2
    /\ EvenStep = 30
    /\ LET second == calculate_cibil_score(
                         WithCardPayments(transactions, 3, CardDates[1], EvenStep))
       IN  /\ second.kind = "return"
           /\ second.report.analysis_period = result.report.analysis_period
           /\ RLt(PaymentScore(result), PaymentScore(second))

\* C6 as stated: 24 monthly credit-card payments of 5000 and a home-loan EMI
\* every month, in chronological order: Payment History 95, Credit Mix 2
\* types and 55, no recent inquiry and New Credit 90, Credit History Length
\* score 70 or more.
C6_Scenario24Months ==
    (EngineRan /\ transactions \in ScenarioLists) =>
        /\ result.kind = "return"
        /\ PaymentScore(result) = RInt(95)
        /\ result.report.score_breakdown.credit_mix.types_count = 2
        /\ result.report.score_breakdown.credit_mix.base.score = RInt(55)
        /\ result.report.score_breakdown.new_credit.recent_inquiries = 0
        /\ result.report.score_breakdown.new_credit.base.score = RInt(90)
        /\ RGe(result.report.score_breakdown.credit_history_length.base.score, RInt(70))

\* C6 amended: as C6, with the Credit History Length score in the band of 1
\* to 3 years: status Fair, score 55 + 5 * age_years, at least 60 and below 70.
C6_Scenario24MonthsFairBand ==
    (EngineRan /\ transactions \in ScenarioLists) =>
        /\ result.kind = "return"
        /\ PaymentScore(result) = RInt(95)
        /\ result.report.score_breakdown.credit_mix.types_count = 2
        /\ result.report.score_breakdown.credit_mix.base.score = RInt(55)
        /\ result.report.score_breakdown.new_credit.recent_inquiries = 0
        /\ result.report.score_breakdown.new_credit.base.score = RInt(90)
        /\ result.report.score_breakdown.credit_history_length.status = "Fair"
        /\ LET days == EndDate(dated_transactions) - StartDate(dated_transactions)
               score == RAdd(RInt(55), Rat(5 * days, 360))
           IN  /\ result.report.score_breakdown.credit_history_length.base.score
                     = Round(score, 1)
               /\ RGe(score, RInt(60))
               /\ RLt(score, RInt(70))

C6_Witness ==
    /\ EngineRan
    /\ transactions \in ScenarioLists
    /\ result.kind = "return"
    /\ result.report.transaction_summary.credit_card_payments = 24
    /\ result.report.transaction_summary.home_loan_payments = 24

\* the upstream fetch failed: no 200 reply
FetchFailed == upstream.kind = "raise" \/ upstream.status_code # 200

\* the fetch ended in a connection failure (requests counts a timeout while
\* connecting among them)
Unreachable == upstream.kind = "raise" /\ "ConnectionError" \in ExceptionClasses(upstream.exc)

\* the fetch timed out waiting for the reply
TimedOut ==
    /\ upstream.kind = "raise"
    /\ "Timeout" \in ExceptionClasses(upstream.exc)
    /\ "ConnectionError" \notin ExceptionClasses(upstream.exc)

\* the 200 reply carries no usable transaction list
NoTransactions ==
    /\ upstream.kind = "reply"
    /\ upstream.status_code = 200
    /\ \/ upstream.body.json # "object"
       \/ ~upstream.body.has_key
       \/ upstream.body.relevant_transactions = <<>>

\* C7: a 404 reply, a connection failure and a timeout of the upstream answer
\* 404, 503 and 504, any other non-200 reply answers that status, and in none
\* of these cases, nor for an empty list or a body that is no JSON, is
\* calculate_cibil_score called or a report returned; it is never called on
\* an empty list.
C7_CollaboratorFailures ==
    pc = "responded" =>
        /\ (upstream.kind = "reply" /\ upstream.status_code = 404) =>
              response.status_code = 404
        /\ Unreachable => response.status_code = 503
        /\ TimedOut => response.status_code = 504
        /\ (upstream.kind = "reply" /\ upstream.status_code # 200) =>
              response.status_code = upstream.status_code
        /\ (FetchFailed \/ NoTransactions) =>
              /\ response.kind = "HTTPException"
              /\ engine_calls = <<>>
        /\ \A i \in 1..Len(engine_calls) : engine_calls[i] # <<>>
        /\ response.kind = "ok" =>
              /\ result.kind = "return"
              /\ response.body.cibil_score = result.report.cibil_score

C7_Witness ==
    /\ pc = "responded"
    /\ TimedOut
    /\ response.kind = "HTTPException"
    /\ response.status_code = 504
    /\ engine_calls = <<>>

\* the keyword sets in their precedence
KeywordSets ==
    << [category |-> "credit_card",
        keywords |-> {"CREDIT CARD", "CC PAYMENT", "CC EMI", "CARD PAYMENT"}],
       [category |-> "home_loan",
        keywords |-> {"HOME LOAN", "HOUSING LOAN", "MORTGAGE", "HL EMI"}],
       [category |-> "car_loan",
        keywords |-> {"CAR LOAN", "AUTO LOAN", "VEHICLE LOAN", "CAR EMI"}],
       [category |-> "secured_loan", keywords |-> {"GOLD LOAN", "LOAN AGAINST PROPERTY"}],
       [category |-> "personal_loan",
        keywords |-> {"PERSONAL LOAN", "PL EMI", "CONSUMER LOAN"}],
       [category |-> "education_loan", keywords |-> {"EDUCATION LOAN", "STUDENT LOAN"}],
       [category |-> "life_insurance", keywords |-> {"LIFE INSURANCE", "LIC PREMIUM"}],
       [category |-> "health_insurance",
        keywords |-> {"HEALTH INSURANCE", "MEDICAL INSURANCE"}] >>

\* the keyword sets with a keyword inside the upper-cased description
MatchingSets(description) ==
    LET desc_upper == Upper(description)
    IN  {k \in 1..Len(KeywordSets) :
            \E w \in KeywordSets[k].keywords : Contains(desc_upper, w)}

\* C8: every categorised transaction carries the category of the first
\* keyword set, in the fixed order, with a keyword in its upper-cased
\* description, and 'other' exactly when no set matches.
C8_CategorizationPrecedence ==
    \A i \in 1..Len(dated_transactions) :
        LET matching == MatchingSets(dated_transactions[i].description)
            category == dated_transactions[i].category
        IN  /\ matching # {} =>
                  \E k \in matching :
                      /\ \A j \in matching : k <= j
                      /\ category = KeywordSets[k].category
            /\ category = "other" <=> matching = {}

\* a description matching the secured-loan and the personal-loan set
C8_Witness ==
    /\ EngineRan
    /\ \E i \in 1..Len(dated_transactions) :
          /\ MatchingSets(dated_transactions[i].description) = {4, 5}
          /\ dated_transactions[i].category = "secured_loan"

\* the eight buckets of the partitioner
BucketNames ==
    {"credit_card", "home_loan", "car_loan", "personal_loan", "education_loan",
     "life_insurance", "health_insurance", "other"}

\* C9: every normalized transaction is in exactly one of the eight buckets.
C9_BucketPartition ==
    \A i \in 1..Len(dated_transactions) :
        Cardinality({b \in BucketNames :
            \E j \in 1..Len(Bucket(dated_transactions, b)) :
                Bucket(dated_transactions, b)[j] = dated_transactions[i]}) = 1

\* the component rules in their order
RecommendationRules ==
    << [component |-> "payment_history", threshold |-> 80,
        message |-> "Maintain consistent monthly payments without delays"],
       [component |-> "credit_utilization", threshold |-> 70,
        message |-> "Reduce credit card utilization below 30% of limit"],
       [component |-> "credit_history_length", threshold |-> 70,
        message |-> "Keep old credit accounts active to build credit age"],
       [component |-> "credit_mix", threshold |-> 70,
        message |-> "Diversify credit portfolio with mix of secured and unsecured credit"],
       [component |-> "new_credit", threshold |-> 75,
        message |-> "Avoid multiple credit applications in short period"] >>

GeneralMessage == "Focus on timely payments to reach excellent score range (750+)"

\* C10: the recommendations are the messages, in the fixed order, of exactly
\* the components whose score is below their threshold, followed by the
\* general message exactly when cibil_score < 750, which is exactly when the
\* status is Good, Fair, Average or Poor (the scores are the computed ones,
\* before the report rounds them).
C10_RecommendationRules ==
    (EngineRan /\ result.kind = "return") =>
        LET scores == Scores(dated_transactions)
            missed == SelectSeq(RecommendationRules,
                          LAMBDA r : RLt(scores[r.component], RInt(r.threshold)))
            expected == [i \in 1..Len(missed) |-> missed[i].message]
                        \o (IF result.report.cibil_score < 750
                            THEN <<GeneralMessage>> ELSE <<>>)
        IN  /\ result.report.recommendations = expected
            /\ result.report.cibil_score < 750
                  <=> result.report.status \in {"Good", "Fair", "Average", "Poor"}

\* a report without recommendations, and the cases in between are reached too
C10_Witness ==
    /\ EngineRan
    /\ result.kind = "return"
    /\ result.report.recommendations = <<>>
    /\ result.report.cibil_score >= 750

\* C11: in every report produced the Credit Utilization score is 70 with
\* utilization_percentage 0 when the credit-card bucket is empty, and 75 with
\* utilization_percentage 40 and status Good when it is not, whatever the
\* amounts: no report carries another utilization score
C11_UtilizationIndependentOfAmounts ==
    (EngineRan /\ result.kind = "return") =>
        LET utilization == result.report.score_breakdown.credit_utilization
        IN  /\ Bucket(dated_transactions, "credit_card") = <<>> =>
                    /\ utilization.base.score = RInt(70)
                    /\ utilization.utilization_percentage = 0
            /\ Bucket(dated_transactions, "credit_card") # <<>> =>
                    /\ utilization.base.score = RInt(75)
                    /\ utilization.utilization_percentage = 40
                    /\ utilization.status = "Good"
            /\ utilization.base.score \in {RInt(70), RInt(75)}

\* the band the thresholds 850, 800, 750, 700, 650, 600 assign to a score
ThresholdBand(score) ==
    CASE score >= 850 -> <<"Exceptional (Peak)", "Maximum">>
      [] score >= 800 /\ score < 850 -> <<"Excellent+", "Very High">>
      [] score >= 750 /\ score < 800 -> <<"Excellent", "Very High">>
      [] score >= 700 /\ score < 750 -> <<"Good", "High">>
      [] score >= 650 /\ score < 700 -> <<"Fair", "Moderate">>
      [] score >= 600 /\ score < 650 -> <<"Average", "Low">>
      [] score < 600 -> <<"Poor", "Very Low">>

\* C12: every report has cibil_score at most 831, so never the status
\* 'Exceptional (Peak)' nor the likelihood 'Maximum', and its status and
\* likelihood are the ones the thresholds assign to cibil_score
C12_PeakBandUnreachable ==
    (EngineRan /\ result.kind = "return") =>
        /\ result.report.cibil_score <= 831
        /\ result.report.status # "Exceptional (Peak)"
        /\ result.report.loan_approval_likelihood # "Maximum"
        /\ <<result.report.status, result.report.loan_approval_likelihood>>
               = ThresholdBand(result.report.cibil_score)
====
